---- MODULE Spec2Model ----
(***************************************************************************)
(* SparseVariationalGP (pyro/contrib/gp/models/svgp.py) and the            *)
(* per-parameter optimizer test (tests/optim/test_optim.py) as state       *)
(* machines.                                                               *)
(*                                                                         *)
(* Tensors are records [shape, data] with the data in row-major order and  *)
(* integer entries.  The results of the linear-algebra collaborators       *)
(* (Cholesky factor, conditional mean and covariance, likelihood score)    *)
(* are kept as terms over their arguments: what a call was given decides   *)
(* what it returns.                                                        *)
(***************************************************************************)
EXTENDS Integers, Sequences, FiniteSets, TLC

\* Largest number of inducing points M of a constructed model.
MaxM == 2
\* Largest number of optimisation steps taken on a model instance.
MaxOptSteps == 1

----------------------------------------------------------------------------
\* Tensors

RECURSIVE Numel(_)
Numel(shape) == IF shape = <<>> THEN 1 ELSE Head(shape) * Numel(Tail(shape))

\* The entries are kept as a sequence of Numel(shape) integers.
Tensor(shape, data) == [shape |-> shape, data |-> SubSeq(data, 1, Numel(shape))]

new_zeros(shape) == Tensor(shape, [i \in 1..Numel(shape) |-> 0])

eye(M) ==
    Tensor(<<M, M>>, [i \in 1..(M * M) |-> IF (i - 1) \div M = (i - 1) % M THEN 1 ELSE 0])

\* t.expand(shape): shape ends with t's shape; the leading dimensions repeat t.
expand(t, shape) ==
    Tensor(shape, [i \in 1..Numel(shape) |-> t.data[((i - 1) % Numel(t.shape)) + 1]])

\* shape[:-1]
AllButLast(shape) == SubSeq(shape, 1, Len(shape) - 1)

\* Point i of a 2-D input tensor (first dimension: the points).
Row(A, i) == SubSeq(A.data, (i - 1) * A.shape[2] + 1, i * A.shape[2])

RECURSIVE Dot(_, _)
Dot(a, b) == IF a = <<>> THEN 0 ELSE Head(a) * Head(b) + Dot(Tail(a), Tail(b))

\* The covariance oracle k(A, B), of shape (|A|, |B|): a linear kernel,
\* symmetric positive-semidefinite when A = B.
kernel(A, B) ==
    LET n == A.shape[1]
        m == B.shape[1]
    IN  Tensor(<<n, m>>,
               [i \in 1..(n * m) |-> Dot(Row(A, ((i - 1) \div m) + 1), Row(B, ((i - 1) % m) + 1))])

kernel_handle == [op |-> "kernel", kind |-> "Linear"]

\* K + eye(M) * jitter
add_jitter(K, jit) ==
    LET E == eye(K.shape[1])
    IN  Tensor(K.shape, [i \in 1..Len(K.data) |-> K.data[i] + E.data[i] * jit])

\* diag(K)
diag(K) ==
    LET n == K.shape[1]
    IN  Tensor(<<n>>, [i \in 1..n |-> K.data[(i - 1) * n + i]])

\* The n x n matrix d (row-major) without row 1 and column c.
Minor(n, d, c) ==
    LET keep == [k \in 1..((n - 1) * (n - 1)) |->
                    LET r  == ((k - 1) \div (n - 1)) + 2
                        j  == ((k - 1) % (n - 1)) + 1
                        cc == IF j < c THEN j ELSE j + 1
                    IN  d[(r - 1) * n + cc]]
    IN  keep

RECURSIVE Det(_, _)
Det(n, d) ==
    IF n = 0 THEN 1
    ELSE LET term[c \in 1..n] ==
                 (IF c % 2 = 1 THEN 1 ELSE -1) * d[c] * Det(n - 1, Minor(n, d, c))
             sum[c \in 0..n] == IF c = 0 THEN 0 ELSE sum[c - 1] + term[c]
         IN  sum[n]

\* The leading k x k block of the n x n matrix d.
Leading(n, d, k) == [i \in 1..(k * k) |-> d[((i - 1) \div k) * n + ((i - 1) % k) + 1]]

\* Symmetric K is positive-definite iff its leading principal minors are > 0.
IsPositiveDefinite(K) ==
    LET n == K.shape[1]
    IN  \A k \in 1..n : Det(k, Leading(n, K.data, k)) > 0

\* K.potrf(upper=False): the lower Cholesky factor, or a decomposition failure.
potrf(K) == [ok |-> IsPositiveDefinite(K), L |-> [op |-> "potrf", of |-> K]]

----------------------------------------------------------------------------
\* Collaborators of the model

None == <<>>

\* pyro.param_with_module_name(module_name, param_name)
param_with_module_name(module_name, param_name) == module_name \o "$$$" \o param_name

\* dist.MultivariateNormal(loc, scale_tril=...).reshape(extra_event_dims=...)
MultivariateNormal(loc, scale_tril, extra_event_dims) ==
    [family |-> "MultivariateNormal", loc |-> loc, scale_tril |-> scale_tril,
     extra_event_dims |-> extra_event_dims]

\* conditional(Xnew, Xu, kernel, f_loc, f_scale_tril, Lff, full_cov, jitter):
\* Lff is None or <<the Cholesky factor of Kuu + jitter*I>>.
conditional(Xnew, Xu_, f_loc, f_scale_tril, Lff, full_cov, jit) ==
    LET N      == Xnew.shape[1]
        fac    == IF Lff = None THEN potrf(add_jitter(kernel(Xu_, Xu_), jit))
                                ELSE [ok |-> TRUE, L |-> Lff[1]]
        Luu    == fac.L
        Kuf    == kernel(Xu_, Xnew)
        Kff    == kernel(Xnew, Xnew)
        latent == AllButLast(f_loc.shape)
        \* W = Luu^-1 Kuf;  mean = W^T (Luu^-1 f_loc)
        mean   == [op |-> "W^T Luu^-1 f_loc", Luu |-> Luu, Kuf |-> Kuf, f_loc |-> f_loc]
        \* V = Luu^-1 f_scale_tril;  cov = Kff - W^T W + (V^T W)^T (V^T W)
        full   == [op |-> "Kff - W^T W + (V^T W)^T (V^T W)", Luu |-> Luu, Kuf |-> Kuf,
                   Kff |-> Kff, f_scale_tril |-> f_scale_tril]
        \* the diagonal of cov, with negative entries set to zero
        var    == [op |-> "clamp(diag(Kff) - colsumsq(W) + colsumsq(V^T W), min=0)",
                   Luu |-> Luu, Kuf |-> Kuf, Kff |-> diag(Kff),
                   f_scale_tril |-> f_scale_tril]
    IN  [ok  |-> fac.ok,
         loc |-> [shape |-> latent \o <<N>>, val |-> mean],
         cov |-> IF full_cov
                 THEN [shape |-> latent \o <<N, N>>, val |-> full]
                 ELSE [shape |-> latent \o <<N>>, val |-> var]]

\* The arguments of a call of conditional, as the call log keeps them.
cond_args(Xnew, Xu_, f_loc, f_scale_tril, Lff, full_cov, jit) ==
    [Xnew |-> Xnew, Xu |-> Xu_, kernel |-> kernel_handle, f_loc |-> f_loc,
     f_scale_tril |-> f_scale_tril, Lff |-> Lff, full_cov |-> full_cov, jitter |-> jit]

\* likelihood(f_loc, f_var, y): registers its own observation site and
\* returns the observation score.
likelihood(f_loc, f_var, y_) ==
    [sites |-> <<[by |-> "likelihood", name |-> param_with_module_name("likelihood", "y"),
                  dist |-> [family |-> "likelihood", obs |-> y_]]>>,
     ret   |-> [op |-> "likelihood", f_loc |-> f_loc, f_var |-> f_var, y |-> y_]]

----------------------------------------------------------------------------
\* Construction

YNone == [present |-> FALSE, shape |-> <<>>, data |-> <<>>]
Y(shape) == [present |-> TRUE, shape |-> shape, data |-> [i \in 1..Numel(shape) |-> i]]

\* latent_shape=None or latent_shape=shape
NoLatentShape == [given |-> FALSE, shape |-> <<>>]
LatentShape(shape) == [given |-> TRUE, shape |-> shape]

\* __init__ taking the whole shape of y for its batch shape.
SparseVariationalGP_whole_y_shape(X_, y_, Xu_, latent_shape_, jitter_, name_) ==
    LET y_batch_shape == IF y_.present THEN y_.shape ELSE <<>>
        ls == IF latent_shape_.given THEN latent_shape_.shape ELSE y_batch_shape
        M  == Xu_.shape[1]
    IN  [X |-> X_, y |-> y_, jitter |-> jitter_, name |-> name_,
         Xu |-> Xu_,
         latent_shape |-> ls,
         u_loc |-> new_zeros(ls \o <<M>>),
         u_scale_tril |-> expand(eye(M), ls \o <<M, M>>),
         constraints |-> [Xu |-> "none", u_loc |-> "none", u_scale_tril |-> "lower_cholesky"],
         sample_latent |-> TRUE]

\* SparseVariationalGP.__init__: the fields of the new instance.
SparseVariationalGP(X_, y_, Xu_, latent_shape_, jitter_, name_) ==
    LET y_batch_shape == IF y_.present THEN AllButLast(y_.shape) ELSE <<>>
        ls == IF latent_shape_.given THEN latent_shape_.shape ELSE y_batch_shape
        M  == Xu_.shape[1]
        u_loc_shape == ls \o <<M>>
        u_scale_tril_shape == ls \o <<M, M>>
    IN  [X |-> X_, y |-> y_, jitter |-> jitter_, name |-> name_,
         Xu |-> Xu_,
         latent_shape |-> ls,
         u_loc |-> new_zeros(u_loc_shape),
         u_scale_tril |-> expand(eye(M), u_scale_tril_shape),
         constraints |-> [Xu |-> "none", u_loc |-> "none", u_scale_tril |-> "lower_cholesky"],
         sample_latent |-> TRUE]

\* Inputs of the constructor.
Names == {"SVGP", "GP2"}
XTrain == Tensor(<<2, 1>>, <<0, 1>>)
Ys == {YNone, Y(<<2>>), Y(<<2, 2>>)}
LatentShapes == {NoLatentShape, LatentShape(<<1>>)}
Jitters == {0, 1}
XuInits == {Tensor(<<M, 1>>, [i \in 1..M |-> c * i]) : M \in 1..MaxM, c \in {0, 1}}

\* Inputs of forward.
Xnews == {Tensor(<<2, 1>>, <<0, 2>>), Tensor(<<1, 2>>, <<1, 1>>)}

\* Values pyro.sample may draw for every entry of u.
DrawVals == {0, 1}

----------------------------------------------------------------------------
\* State of a SparseVariationalGP instance

VARIABLES
    X, y, jitter, name,     \* set by GPModel.__init__, never reassigned
    latent_shape,           \* self.latent_shape
    constraints,            \* constraint registered for each parameter
    Xu, u_loc, u_scale_tril,\* current values of the three parameters
    mode,                   \* the mode last given to set_mode
    sample_latent,          \* self._sample_latent
    ctor,                   \* the arguments the constructor was called with
    call,                   \* the last operation: what it did and returned
    siteNames,              \* <<program, name>> of the sites model() and guide() registered so far
    nsteps                  \* optimisation steps taken

\* State of do_test_per_param_optim
VARIABLES
    pc,                     \* position in the test
    fixed_param, free_param,\* the arguments of do_test_per_param_optim
    param_store,            \* the global parameter store: name -> value
    adam, adam2,            \* the two optimizers
    saved,                  \* the file 'adam.unittest.save': None or <<state>>
    nsvi, nsvi2,            \* calls of svi.step() and of svi2.step() so far
    savedAt                 \* calls of svi.step() before adam.save

testVars == <<pc, fixed_param, free_param, param_store, adam, adam2, saved, nsvi, nsvi2,
              savedAt>>

gpVars == <<X, y, jitter, name, latent_shape, constraints, Xu, u_loc, u_scale_tril,
            mode, sample_latent, ctor, call, siteNames, nsteps>>

fixedVars == <<X, y, jitter, name, latent_shape, constraints, ctor>>

\* What an operation leaves in `call`.
Call(op, raised, events, sites, guides, cond, lik, drawn, ret) ==
    [op |-> op, raised |-> raised, events |-> events, sites |-> sites, guides |-> guides,
     cond |-> cond, lik |-> lik, drawn |-> drawn, ret |-> ret]

InitGP(X_, y_, Xu_, latent_shape_, jitter_, name_) ==
    LET self == SparseVariationalGP(X_, y_, Xu_, latent_shape_, jitter_, name_)
    IN  /\ X = self.X
        /\ y = self.y
        /\ jitter = self.jitter
        /\ name = self.name
        /\ latent_shape = self.latent_shape
        /\ constraints = self.constraints
        /\ Xu = self.Xu
        /\ u_loc = self.u_loc
        /\ u_scale_tril = self.u_scale_tril
        /\ sample_latent = self.sample_latent
        /\ mode = "model"
        /\ ctor = [y |-> y_, Xu |-> Xu_, latent_shape |-> latent_shape_,
                   jitter |-> jitter_, name |-> name_]
        /\ call = Call("init", "none", <<>>, <<>>, <<>>, <<>>, <<>>, <<>>, <<>>)
        /\ siteNames = {}
        /\ nsteps = 0

----------------------------------------------------------------------------
\* guide() sampling whatever the flag says.
guide_call_always_samples(flag) ==
    LET site == [by |-> "guide", name |-> param_with_module_name(name, "u"),
                 dist |-> MultivariateNormal(u_loc, u_scale_tril, Len(u_loc.shape) - 1)]
    IN  [mode   |-> "guide",
         flag   |-> flag,
         sites  |-> <<site>>,
         events |-> <<"set_mode", "get_param", "get_param", "get_param", "sample">>,
         ret    |-> <<Xu, kernel_handle, u_loc, u_scale_tril>>]

\* guide(), run with self._sample_latent = flag: the mode it sets, the sites
\* it registers and what it returns.
guide_call(flag) ==
    LET u_name == param_with_module_name(name, "u")
        site   == [by |-> "guide", name |-> u_name,
                   dist |-> MultivariateNormal(u_loc, u_scale_tril, Len(u_loc.shape) - 1)]
    IN  [mode   |-> "guide",
         flag   |-> flag,
         sites  |-> IF flag THEN <<site>> ELSE <<>>,
         events |-> <<"set_mode", "get_param", "get_param", "get_param">>
                    \o (IF flag THEN <<"sample">> ELSE <<>>),
         ret    |-> <<Xu, kernel_handle, u_loc, u_scale_tril>>]

\* model(), lines 101-103: Kuu with jitter and its Cholesky factorisation.
model_potrf ==
    LET Kuu == add_jitter(kernel(Xu, Xu), jitter)
    IN  potrf(Kuu)

\* model() naming its site after something else than guide() does.
model_site_other_name(Luu) ==
    LET zero_loc == new_zeros(u_loc.shape)
    IN  [by |-> "model", name |-> param_with_module_name(name, "f"),
         dist |-> MultivariateNormal(zero_loc, Luu, Len(zero_loc.shape) - 1)]

\* model(), lines 105-109: the sample site of the inducing values.
model_site(Luu) ==
    LET zero_loc == new_zeros(u_loc.shape)
        u_name   == param_with_module_name(name, "u")
    IN  [by |-> "model", name |-> u_name,
         dist |-> MultivariateNormal(zero_loc, Luu, Len(zero_loc.shape) - 1)]

\* model() conditioning on the drawn u instead of u_loc.
model_conditional_on_draw(Luu, u) ==
    [f    |-> conditional(X, Xu, u, u_scale_tril, <<Luu>>, FALSE, jitter),
     args |-> cond_args(X, Xu, u, u_scale_tril, <<Luu>>, FALSE, jitter)]

\* model(), lines 111-112: the conditional at the training inputs; u is the
\* value pyro.sample returned at line 107.
model_conditional(Luu, u) ==
    [f    |-> conditional(X, Xu, u_loc, u_scale_tril, <<Luu>>, FALSE, jitter),
     args |-> cond_args(X, Xu, u_loc, u_scale_tril, <<Luu>>, FALSE, jitter)]

\* model() returning the latent pair whether or not y was given.
model_return_latent_only(f_loc, f_var) ==
    [events |-> <<>>, sites |-> <<>>, lik |-> <<>>, ret |-> <<f_loc, f_var>>]

\* model(), lines 114-117: what is returned, and the likelihood's part in it.
model_return(f_loc, f_var) ==
    IF ~y.present
    THEN [events |-> <<>>, sites |-> <<>>, lik |-> <<>>, ret |-> <<f_loc, f_var>>]
    ELSE LET l == likelihood(f_loc, f_var, y)
         IN  [events |-> <<"likelihood">>, sites |-> l.sites,
              lik |-> <<[f_loc |-> f_loc, f_var |-> f_var, y |-> y]>>, ret |-> <<l.ret>>]

\* model(), with pyro.sample drawing u at the site it registers.
model_call(u) ==
    LET fac == model_potrf
        pre == <<"set_mode", "get_param", "get_param", "get_param", "kernel", "potrf">>
        c   == model_conditional(fac.L, u)
        r   == model_return(c.f.loc, c.f.cov)
    IN  IF ~fac.ok
        THEN [mode |-> "model",
              call |-> Call("model", "NumericalError", pre, <<>>, <<>>, <<>>, <<>>, <<>>, <<>>)]
        ELSE [mode |-> "model",
              call |-> Call("model", "none", pre \o <<"sample", "conditional">> \o r.events,
                            <<model_site(fac.L)>> \o r.sites, <<>>, <<c.args>>, r.lik,
                            <<u>>, r.ret)]

\* GPModel._check_Xnew_shape: Xnew has the dimensions of X after the first.
check_Xnew_shape(Xnew) ==
    /\ Len(Xnew.shape) = Len(X.shape)
    /\ Tail(Xnew.shape) = Tail(X.shape)

\* forward() forgetting to restore self._sample_latent.
forward_predict_no_restore(Xnew, full_cov) ==
    LET g    == guide_call(FALSE)
        f    == conditional(Xnew, g.ret[1], g.ret[3], g.ret[4], None, full_cov, jitter)
        args == cond_args(Xnew, g.ret[1], g.ret[3], g.ret[4], None, full_cov, jitter)
        ev   == <<"_sample_latent=False", "guide">> \o g.events \o <<"conditional">>
    IN  [mode |-> g.mode, sample_latent |-> FALSE,
         call |-> Call("forward", IF f.ok THEN "none" ELSE "NumericalError", ev,
                       g.sites, <<[flag |-> g.flag, sites |-> g.sites, ret |-> g.ret]>>,
                       <<args>>, <<>>, <<>>,
                       IF f.ok THEN <<f.loc, f.cov>> ELSE <<>>)]

\* forward(), lines 153-160, once the shape of Xnew is accepted.
forward_predict(Xnew, full_cov) ==
    LET tmp_sample_latent == sample_latent
        g    == guide_call(FALSE)
        f    == conditional(Xnew, g.ret[1], g.ret[3], g.ret[4], None, full_cov, jitter)
        args == cond_args(Xnew, g.ret[1], g.ret[3], g.ret[4], None, full_cov, jitter)
        ev   == <<"_sample_latent=False", "guide">> \o g.events
                \o <<"_sample_latent=tmp", "conditional">>
    IN  [mode |-> g.mode, sample_latent |-> tmp_sample_latent,
         call |-> Call("forward", IF f.ok THEN "none" ELSE "NumericalError", ev,
                       g.sites, <<[flag |-> g.flag, sites |-> g.sites, ret |-> g.ret]>>,
                       <<args>>, <<>>, <<>>,
                       IF f.ok THEN <<f.loc, f.cov>> ELSE <<>>)]

\* forward() checking the shape of Xnew only after it has read the parameters.
forward_call_late_check(Xnew, full_cov) ==
    LET r == forward_predict(Xnew, full_cov)
    IN  IF ~check_Xnew_shape(Xnew)
        THEN [r EXCEPT !.call.raised = "ShapeError",
                       !.call.events = SubSeq(@, 1, Len(@) - 1) \o <<"_check_Xnew_shape">>,
                       !.call.cond = <<>>,
                       !.call.ret = <<>>]
        ELSE [r EXCEPT !.call.events = <<"_check_Xnew_shape">> \o @]

\* forward(Xnew, full_cov)
forward_call(Xnew, full_cov) ==
    IF ~check_Xnew_shape(Xnew)
    THEN [mode |-> mode, sample_latent |-> sample_latent,
          call |-> Call("forward", "ShapeError", <<"_check_Xnew_shape">>,
                        <<>>, <<>>, <<>>, <<>>, <<>>, <<>>)]
    ELSE LET r == forward_predict(Xnew, full_cov)
         IN  [r EXCEPT !.call.events = <<"_check_Xnew_shape">> \o @]

\* The <<program, name>> pairs of the sites `by` registered among `sites`.
SiteNames(sites, by) == {<<by, sites[i].name>> : i \in {j \in DOMAIN sites : sites[j].by = by}}

Draws == {Tensor(u_loc.shape, [i \in 1..Numel(u_loc.shape) |-> c]) : c \in DrawVals}

model ==
    \E u \in Draws :
        LET r == model_call(u)
        IN  /\ mode' = r.mode
            /\ call' = r.call
            /\ siteNames' = siteNames \cup SiteNames(r.call.sites, "model")
            /\ UNCHANGED <<fixedVars, Xu, u_loc, u_scale_tril, sample_latent, nsteps, testVars>>

guide ==
    LET g == guide_call(sample_latent)
    IN  /\ mode' = g.mode
        /\ call' = Call("guide", "none", g.events, g.sites,
                        <<[flag |-> g.flag, sites |-> g.sites, ret |-> g.ret]>>,
                        <<>>, <<>>, <<>>, g.ret)
        /\ siteNames' = siteNames \cup SiteNames(g.sites, "guide")
        /\ UNCHANGED <<fixedVars, Xu, u_loc, u_scale_tril, sample_latent, nsteps, testVars>>

forward ==
    \E Xnew \in Xnews, full_cov \in BOOLEAN :
        LET r == forward_call(Xnew, full_cov)
        IN  /\ mode' = r.mode
            /\ sample_latent' = r.sample_latent
            /\ call' = r.call
            /\ siteNames' = siteNames \cup SiteNames(r.call.sites, "guide")
            /\ UNCHANGED <<fixedVars, Xu, u_loc, u_scale_tril, nsteps, testVars>>

\* One step of the external optimizer: it moves every parameter in place,
\* through the parameter store; the lower-Cholesky transform keeps
\* u_scale_tril lower-triangular with a positive diagonal.
Shift(t, d) == Tensor(t.shape, [i \in 1..Len(t.data) |-> t.data[i] + d])

ShiftTril(t, d) ==
    LET M == t.shape[Len(t.shape)]
    IN  Tensor(t.shape, [i \in 1..Len(t.data) |->
                            IF ((i - 1) % (M * M)) \div M >= ((i - 1) % (M * M)) % M
                            THEN t.data[i] + d ELSE t.data[i]])

\* Amounts a step may move the entries by.
StepSizes == {1, 2}

optimizer_step ==
    /\ nsteps < MaxOptSteps
    /\ \E d \in StepSizes :
        /\ Xu' = Shift(Xu, d)
        /\ u_loc' = Shift(u_loc, d)
        /\ u_scale_tril' = ShiftTril(u_scale_tril, d)
    /\ call' = Call("step", "none", <<>>, <<>>, <<>>, <<>>, <<>>, <<>>, <<>>)
    /\ nsteps' = nsteps + 1
    /\ UNCHANGED <<fixedVars, mode, sample_latent, siteNames, testVars>>

----------------------------------------------------------------------------
\* tests/optim/test_optim.py: do_test_per_param_optim(fixed_param, free_param)

\* Largest number of calls of svi.step() and of svi2.step() in a run.
MaxSviSteps == 3
MaxSvi2Steps == 2

ParamNames == {"loc_q", "log_sig_q"}

\* Gradients of the stochastic ELBO estimate: non-zero.
Grads == {-1, 1}

\* A parameter value: the tensor it was initialised with and the non-zero
\* updates applied to it since, in order.
zeros1 == [base |-> 0, moves |-> <<>>]

\* optim_params giving every parameter the free parameter's learning rate.
optim_params_one_lr(module_name, param_name) ==
    IF param_name \in {fixed_param, free_param} THEN <<[lr |-> 1]>> ELSE None

\* optim_params(module_name, param_name): the learning rate in units of 0.01.
optim_params(module_name, param_name) ==
    IF param_name = fixed_param THEN <<[lr |-> 0]>>
    ELSE IF param_name = free_param THEN <<[lr |-> 1]>>
    ELSE None

\* optim.Adam(optim_params): no per-parameter optimizer yet, no loaded state.
NewOptim == [optim_objs |-> <<>>, waiting |-> <<>>]

\* p.data.addcdiv_(-step_size, exp_avg, denom) with step_size proportional
\* to lr: nothing moves when lr = 0.
apply_update(value, lr, grad) ==
    IF lr * grad = 0 THEN value
    ELSE [value EXCEPT !.moves = Append(@, [lr |-> lr, grad |-> grad])]

\* The per-parameter optimizer of PyroOptim for `param`, created on first use
\* with the arguments optim_params gives and, when a loaded state waits for
\* the parameter, that state.
get_optim(opt, param) ==
    IF param \in DOMAIN opt.optim_objs THEN opt.optim_objs[param]
    ELSE IF param \in DOMAIN opt.waiting THEN opt.waiting[param]
    ELSE [step |-> 0, lr |-> optim_params("", param)[1].lr]

\* PyroOptim.__call__(params): one step of every parameter's optimizer.
optim_call(opt, params) ==
    [optim_objs |-> [q \in DOMAIN opt.optim_objs \cup params |->
                        IF q \in params
                        THEN [get_optim(opt, q) EXCEPT !.step = @ + 1]
                        ELSE opt.optim_objs[q]],
     waiting    |-> [q \in DOMAIN opt.waiting \ params |-> opt.waiting[q]]]

\* PyroOptim.get_state(): name -> state of the parameter's optimizer.
get_state(opt) == opt.optim_objs

\* PyroOptim.set_state(state): kept until a parameter's optimizer is created.
set_state(opt, state) == [opt EXCEPT !.waiting = state]

\* guide(): pyro.param registers each parameter with zeros on first use.
guide_params(store) ==
    [q \in ParamNames |-> IF q \in DOMAIN store THEN store[q] ELSE zeros1]

\* SVI.step() with optimizer opt: run the guide and the model, then step
\* every parameter with its gradient.
svi_step_result(opt, store, grad) ==
    LET registered == guide_params(store)
        opt2       == optim_call(opt, DOMAIN registered)
    IN  [opt   |-> opt2,
         store |-> [q \in DOMAIN registered |->
                       apply_update(registered[q], opt2.optim_objs[q].lr, grad[q])]]

\* line 60, 63: svi.step()
svi_step ==
    /\ pc \in {"adam", "saved"}
    /\ nsvi < MaxSviSteps
    /\ \E grad \in [ParamNames -> Grads] :
        LET r == svi_step_result(adam, param_store, grad)
        IN  /\ adam' = r.opt
            /\ param_store' = r.store
    /\ nsvi' = nsvi + 1
    /\ UNCHANGED <<pc, fixed_param, free_param, adam2, saved, nsvi2, savedAt, gpVars>>

\* line 62: adam.save('adam.unittest.save')
adam_save ==
    /\ pc = "adam"
    /\ saved' = <<get_state(adam)>>
    /\ savedAt' = nsvi
    /\ pc' = "saved"
    /\ UNCHANGED <<fixed_param, free_param, param_store, adam, adam2, nsvi, nsvi2, gpVars>>

\* The test going on to svi2.step() without the load taking effect.
adam2_load_nothing ==
    /\ pc = "saved"
    /\ pc' = "loaded"
    /\ UNCHANGED <<fixed_param, free_param, param_store, adam, adam2, saved, nsvi, nsvi2,
                   savedAt, gpVars>>

\* line 65: adam2.load('adam.unittest.save')
adam2_load ==
    /\ pc = "saved"
    /\ adam2' = set_state(adam2, saved[1])
    /\ pc' = "loaded"
    /\ UNCHANGED <<fixed_param, free_param, param_store, adam, saved, nsvi, nsvi2, savedAt,
                   gpVars>>

\* line 66: svi2.step()
svi2_step ==
    /\ pc = "loaded"
    /\ nsvi2 < MaxSvi2Steps
    /\ \E grad \in [ParamNames -> Grads] :
        LET r == svi_step_result(adam2, param_store, grad)
        IN  /\ adam2' = r.opt
            /\ param_store' = r.store
    /\ nsvi2' = nsvi2 + 1
    /\ UNCHANGED <<pc, fixed_param, free_param, adam, saved, nsvi, savedAt, gpVars>>

\* lines 30, 55-58: the store is cleared and the two optimizers are new.
InitTest(fixed, free) ==
    /\ pc = "adam"
    /\ fixed_param = fixed
    /\ free_param = free
    /\ param_store = <<>>
    /\ adam = NewOptim
    /\ adam2 = NewOptim
    /\ saved = None
    /\ nsvi = 0
    /\ nsvi2 = 0
    /\ savedAt = 0

\* No test is running.
IdleTest ==
    /\ pc = "idle"
    /\ fixed_param = "loc_q"
    /\ free_param = "log_sig_q"
    /\ param_store = <<>>
    /\ adam = NewOptim
    /\ adam2 = NewOptim
    /\ saved = None
    /\ nsvi = 0
    /\ nsvi2 = 0
    /\ savedAt = 0

----------------------------------------------------------------------------
\* Specifications

vars == <<gpVars, testVars>>

\* A SparseVariationalGP instance under any calls of model(), guide(),
\* forward() and steps of the optimizer.
Init ==
    /\ \E y_ \in Ys, Xu_ \in XuInits, ls \in LatentShapes, jit \in Jitters, name_ \in Names :
          InitGP(XTrain, y_, Xu_, ls, jit, name_)
    /\ IdleTest

Next == model \/ guide \/ forward \/ optimizer_step

Spec == Init /\ [][Next]_vars

\* test_per_param_optim: do_test_per_param_optim with either parameter fixed.
InitOptim ==
    /\ InitGP(XTrain, YNone, Tensor(<<1, 1>>, <<1>>), NoLatentShape, 1, "SVGP")
    /\ \/ InitTest("loc_q", "log_sig_q")
       \/ InitTest("log_sig_q", "loc_q")

NextOptim == svi_step \/ adam_save \/ adam2_load \/ svi2_step

SpecOptim == InitOptim /\ [][NextOptim]_vars

----------------------------------------------------------------------------
\* Properties of SparseVariationalGP (checked under Spec)

\* C1: a forward(Xnew, full_cov) that returns normally, from any reachable
\* state and for either full_cov, registers no sample site, leaves Xu, u_loc
\* and u_scale_tril as they were and leaves _sample_latent at its value before
\* the call, so that a guide() called next registers its sample site.
C1_ForwardSideEffectFree ==
    [][(call'.op = "forward" /\ call'.raised = "none") =>
          /\ call'.sites = <<>>
          /\ siteNames' = siteNames
          /\ Xu' = Xu
          /\ u_loc' = u_loc
          /\ u_scale_tril' = u_scale_tril
          /\ sample_latent' = sample_latent
          /\ (Len(guide_call(sample_latent).sites) = 1)']_vars

C1_Witness ==
    /\ call.op = "forward"
    /\ call.raised = "none"
    /\ call.cond[1].full_cov
    /\ nsteps > 0
    /\ siteNames # {}

\* C2: every run of guide(), called directly or by forward(), returns
\* (Xu, kernel, u_loc, u_scale_tril) read from the current parameter state;
\* it registers exactly one site, with MultivariateNormal(u_loc,
\* scale_tril=u_scale_tril), when _sample_latent is set and no site when it
\* is suppressed.
C2_GuideReturnsAndSamples ==
    /\ \A i \in DOMAIN call.guides :
          LET g == call.guides[i]
          IN  /\ g.ret = <<Xu, kernel_handle, u_loc, u_scale_tril>>
              /\ g.flag => /\ Len(g.sites) = 1
                           /\ g.sites[1].dist.family = "MultivariateNormal"
                           /\ g.sites[1].dist.loc = u_loc
                           /\ g.sites[1].dist.scale_tril = u_scale_tril
              /\ ~g.flag => g.sites = <<>>
    /\ call.op = "guide" =>
          /\ Len(call.guides) = 1
          /\ call.guides[1].flag = sample_latent
          /\ call.ret = call.guides[1].ret
          /\ call.sites = call.guides[1].sites
    /\ call.op = "forward" /\ call.raised # "ShapeError" =>
          /\ Len(call.guides) = 1
          /\ ~call.guides[1].flag
          /\ call.sites = <<>>

C2_Witness ==
    /\ call.op = "forward"
    /\ call.guides # <<>>
    /\ ~call.guides[1].flag
    /\ call.guides[1].sites = <<>>
    /\ call.guides[1].ret[3] # new_zeros(u_loc.shape)

\* C3: a model() that reaches its sample statement registers, besides the
\* likelihood's own sites, exactly one site: a zero-mean multivariate normal
\* whose scale factor is the Cholesky factor of k(Xu, Xu) + jitter*I.  Its
\* name depends on the instance name only, so it is the same at every
\* invocation and is the name of the site guide() registers.
C3_ModelSite ==
    /\ (call.op = "model" /\ call.raised = "none") =>
          LET own == SelectSeq(call.sites, LAMBDA s : s.by # "likelihood")
              M   == Xu.shape[1]
              K   == own[1].dist.scale_tril.of
          IN  /\ Len(own) = 1
              /\ own[1].by = "model"
              /\ own[1].dist.family = "MultivariateNormal"
              /\ own[1].dist.loc.shape = u_loc.shape
              /\ \A i \in DOMAIN own[1].dist.loc.data : own[1].dist.loc.data[i] = 0
              /\ own[1].dist.scale_tril.op = "potrf"
              /\ K.shape = <<M, M>>
              /\ \A i, j \in 1..M :
                    K.data[(i - 1) * M + j] =
                        Xu.data[i] * Xu.data[j] + (IF i = j THEN jitter ELSE 0)
              /\ own[1].name = name \o "$$$u"
    /\ \A s, t \in siteNames : s[2] = t[2]

C3_Witness ==
    /\ call.op = "model"
    /\ call.raised = "none"
    /\ Len(call.sites) = 2
    /\ {s[1] : s \in siteNames} = {"model", "guide"}

\* C4: a call of model(), guide() or forward() that raises leaves the
\* parameters, the mode, _sample_latent and the registered sites as they
\* were before the call.
C4_NoPartialFailureState ==
    [][call'.raised # "none" =>
          /\ Xu' = Xu
          /\ u_loc' = u_loc
          /\ u_scale_tril' = u_scale_tril
          /\ mode' = mode
          /\ sample_latent' = sample_latent
          /\ siteNames' = siteNames
          /\ call'.sites = <<>>]_vars

\* C5: forward(Xnew) with an Xnew whose shape does not fit the training
\* inputs raises the shape error as its first step: guide() is not run,
\* _sample_latent is not assigned and conditional is not called.
C5_ShapeErrorFirst ==
    /\ \A Xnew \in Xnews, full_cov \in BOOLEAN :
          (Len(Xnew.shape) # Len(X.shape) \/ Xnew.shape[2] # X.shape[2]) =>
              LET r == forward_call(Xnew, full_cov)
              IN  /\ r.call.raised = "ShapeError"
                  /\ r.call.events = <<"_check_Xnew_shape">>
                  /\ r.call.guides = <<>>
                  /\ r.call.cond = <<>>
                  /\ r.call.sites = <<>>
                  /\ r.mode = mode
                  /\ r.sample_latent = sample_latent
    /\ (call.op = "forward" /\ call.raised = "ShapeError") =>
          /\ call.events = <<"_check_Xnew_shape">>
          /\ call.guides = <<>>
          /\ call.cond = <<>>

C5_Witness ==
    /\ call.op = "forward"
    /\ call.raised = "ShapeError"
    /\ nsteps > 0

\* C6: model() without y returns the pair (latent mean, latent variance) of
\* the conditional and does not call the likelihood; with y it calls the
\* likelihood exactly once, with (latent mean, latent variance, y), and
\* returns what the likelihood returns.
C6_ModelOutput ==
    (call.op = "model" /\ call.raised = "none") =>
        LET a    == call.cond[1]
            f    == conditional(a.Xnew, a.Xu, a.f_loc, a.f_scale_tril, a.Lff, a.full_cov,
                                a.jitter)
            nlik == Cardinality({i \in DOMAIN call.events : call.events[i] = "likelihood"})
        IN  /\ Len(call.cond) = 1
            /\ IF ~y.present
               THEN /\ nlik = 0
                    /\ call.lik = <<>>
                    /\ call.ret = <<f.loc, f.cov>>
               ELSE /\ nlik = 1
                    /\ call.lik = <<[f_loc |-> f.loc, f_var |-> f.cov, y |-> y]>>
                    /\ call.ret = <<likelihood(f.loc, f.cov, y).ret>>

C6_Witness ==
    /\ call.op = "model"
    /\ call.raised = "none"
    /\ y.present
    /\ Len(call.lik) = 1
    /\ nsteps > 0

\* C7: right after construction with M inducing points, latent_shape is the
\* given latent_shape, else the batch shape of y (all dimensions but the
\* last), else empty; Xu holds the given values; u_loc is zero with shape
\* latent_shape ++ (M,); u_scale_tril is the M x M identity for every latent
\* dimension, with shape latent_shape ++ (M, M) and the lower-Cholesky
\* constraint; _sample_latent is set.
C7_Construction ==
    call.op = "init" =>
        LET M  == ctor.Xu.shape[1]
            ls == IF ctor.latent_shape.given THEN ctor.latent_shape.shape
                  ELSE IF ctor.y.present
                       THEN [i \in 1..(Len(ctor.y.shape) - 1) |-> ctor.y.shape[i]]
                       ELSE <<>>
        IN  /\ latent_shape = ls
            /\ Xu = ctor.Xu
            /\ u_loc.shape = ls \o <<M>>
            /\ Len(u_loc.data) = Numel(ls) * M
            /\ \A i \in DOMAIN u_loc.data : u_loc.data[i] = 0
            /\ u_scale_tril.shape = ls \o <<M, M>>
            /\ Len(u_scale_tril.data) = Numel(ls) * M * M
            /\ \A b \in 0..(Numel(ls) - 1) : \A i, j \in 1..M :
                  u_scale_tril.data[b * M * M + (i - 1) * M + j] = (IF i = j THEN 1 ELSE 0)
            /\ constraints.u_scale_tril = "lower_cholesky"
            /\ sample_latent

C7_Witness ==
    /\ call.op = "init"
    /\ ~ctor.latent_shape.given
    /\ ctor.y.shape = <<2, 2>>
    /\ ctor.Xu.shape[1] = 2
    /\ latent_shape = <<2>>

\* C10: in model() the conditional at X is computed in diagonal mode from
\* u_loc, u_scale_tril and the Cholesky factor computed earlier in the call;
\* the value drawn at the site u has no influence on the latent mean and
\* variance model() returns or gives the likelihood: two runs from the same
\* state with different draws agree on them.
C10_DrawDoesNotInfluenceLatent ==
    /\ \A u1, u2 \in Draws :
          LET run1 == model_call(u1).call
              run2 == model_call(u2).call
          IN  /\ run1.cond = run2.cond
              /\ run1.lik = run2.lik
              /\ run1.ret = run2.ret
    /\ (call.op = "model" /\ call.raised = "none") =>
          /\ call.cond[1].Xnew = X
          /\ ~call.cond[1].full_cov
          /\ call.cond[1].f_loc = u_loc
          /\ call.cond[1].f_scale_tril = u_scale_tril
          /\ call.cond[1].Lff = <<call.sites[1].dist.scale_tril>>

C10_Witness ==
    /\ call.op = "model"
    /\ call.raised = "none"
    /\ call.drawn[1] # u_loc
    /\ call.drawn[1] # new_zeros(u_loc.shape)
    /\ nsteps > 0

----------------------------------------------------------------------------
\* Properties of the optimizer test (checked under SpecOptim)

StepCount(opt, param) ==
    IF param \in DOMAIN opt.optim_objs THEN opt.optim_objs[param].step ELSE 0

====
